---- MODULE Spec2Model ----
(***************************************************************************)
(* Model of the Mewgenics save renamer: the cat-blob codec                 *)
(* (blob_parser.py, name_modifier.py), the save row-store and backup       *)
(* operations (save_manager.py) and the rename pipeline of the renamer tab *)
(* (gui_tab_renamer.py).                                                   *)
(*                                                                         *)
(* Bytes are naturals 0..255, byte strings are sequences of bytes, and a   *)
(* Python str is a sequence of code points.                                *)
(***************************************************************************)
EXTENDS Integers, Sequences, FiniteSets, TLC

(* ------------------------------------------------------------------ *)
(* Program constants                                                  *)
(* ------------------------------------------------------------------ *)
_CAT_MAGIC == 19
_NAME_LEN_OFFSET == 12
_NAME_START == 20
_MAX_NAME_CHARS == 500
MAX_NAME_LEN == 24
MIN_NAME_LEN == 1
(* the plausible-size window of unpack_blob: 20 < size < 10_000 *)
SIZE_WINDOW_LOW == 20
SIZE_WINDOW_HIGH == 10000

(* ------------------------------------------------------------------ *)
(* Byte-string helpers (struct.pack / struct.unpack_from / slicing)   *)
(* ------------------------------------------------------------------ *)
Min(a, b) == IF a <= b THEN a ELSE b

(* struct.pack('<I', n) *)
pack_u32(n) ==
    << n % 256, (n \div 256) % 256, (n \div 65536) % 256, (n \div 16777216) % 256 >>

(* struct.unpack_from('<I', s, off)[0]; the callers guarantee off + 4 <= len *)
unpack_u32(s, off) ==
    s[off + 1] + 256 * s[off + 2] + 65536 * s[off + 3] + 16777216 * s[off + 4]

(* Python s[a:b] for 0 <= a, 0 <= b: indices past the end are clamped *)
Slice(s, a, b) == SubSeq(s, a + 1, Min(b, Len(s)))

(* Python s[a:] *)
SliceFrom(s, a) == SubSeq(s, a + 1, Len(s))

(* ------------------------------------------------------------------ *)
(* LZ4 block format, as used through lz4.block                        *)
(* ------------------------------------------------------------------ *)
LZ4Error == [ok |-> FALSE, data |-> << >>]

(* A length whose 4-bit field is 15 continues in the following bytes, each
   adding 0..255, ending at the first byte below 255: [ok, len, next], next
   being the index after the length bytes. *)
RECURSIVE lz4_read_len(_, _, _)
lz4_read_len(src, i, acc) ==
    IF i > Len(src) THEN [ok |-> FALSE, len |-> 0, next |-> i]
    ELSE IF src[i] = 255 THEN lz4_read_len(src, i + 1, acc + 255)
    ELSE [ok |-> TRUE, len |-> acc + src[i], next |-> i + 1]

(* the length held by a 4-bit field and the bytes from index i *)
lz4_len_field(src, i, nibble) ==
    IF nibble = 15 THEN lz4_read_len(src, i, 15)
    ELSE [ok |-> TRUE, len |-> nibble, next |-> i]

(* copy n bytes from `off` bytes back in the output; the areas may overlap *)
RECURSIVE lz4_copy_match(_, _, _)
lz4_copy_match(out, off, n) ==
    IF n = 0 THEN out
    ELSE lz4_copy_match(Append(out, out[Len(out) - off + 1]), off, n - 1)

RECURSIVE lz4_sequences(_, _, _, _)

(* the match of a sequence: offset `off` back, length field mx *)
lz4_match(src, out, cap, off, mx) ==
    IF off = 0 \/ off > Len(out) \/ ~mx.ok THEN LZ4Error
    ELSE IF Len(out) + mx.len + 4 > cap THEN LZ4Error
    ELSE lz4_sequences(src, mx.next, lz4_copy_match(out, off, mx.len + 4), cap)

(* the literals of a sequence with token `token` and literal length field
   litx; a block ends with the literals of its last sequence *)
lz4_literals(src, out, cap, token, litx) ==
    IF ~litx.ok THEN LZ4Error
    ELSE IF litx.next + litx.len - 1 > Len(src) \/ Len(out) + litx.len > cap
    THEN LZ4Error
    ELSE IF litx.next + litx.len > Len(src)
    THEN [ok |-> TRUE, data |-> out \o SubSeq(src, litx.next, litx.next + litx.len - 1)]
    ELSE IF litx.next + litx.len + 1 > Len(src) THEN LZ4Error
    ELSE lz4_match(src,
                   out \o SubSeq(src, litx.next, litx.next + litx.len - 1),
                   cap,
                   src[litx.next + litx.len] + 256 * src[litx.next + litx.len + 1],
                   lz4_len_field(src, litx.next + litx.len + 2, token % 16))

(* the sequences of a block from index i of src, `out` being decoded so far
   and cap the most bytes the output may take *)
lz4_sequences(src, i, out, cap) ==
    IF i > Len(src) THEN LZ4Error
    ELSE lz4_literals(src, out, cap, src[i], lz4_len_field(src, i + 1, src[i] \div 16))

(* lz4.block.decompress(src, uncompressed_size=size): LZ4BlockError on a
   malformed block or one that needs more than size bytes; a block that
   decodes to fewer bytes is returned as it is *)
lz4_decompress(src, size) == lz4_sequences(src, 1, << >>, size)

(* the bytes that continue a length of 15 + n *)
RECURSIVE lz4_len_bytes(_)
lz4_len_bytes(n) == IF n >= 255 THEN << 255 >> \o lz4_len_bytes(n - 255) ELSE << n >>

(* lz4.block.compress(data, store_size=False): the block of a single
   literal run, which is what the compressor emits when it finds no match *)
lz4_compress(data) ==
    IF Len(data) < 15 THEN << 16 * Len(data) >> \o data
    ELSE << 240 >> \o lz4_len_bytes(Len(data) - 15) \o data

(* ------------------------------------------------------------------ *)
(* blob_parser.py                                                     *)
(* ------------------------------------------------------------------ *)
(* raise ValueError("Not a valid cat blob (neither LZ4-compressed nor raw)") *)
UnpackError ==
    [ok |-> FALSE, data |-> << >>, is_compressed |-> FALSE, error |-> "ValueError"]

(* the LZ4 attempt raised lz4.block.LZ4BlockError, caught by "except ...: pass" *)
LZ4Failed ==
    [ok |-> FALSE, data |-> << >>, is_compressed |-> FALSE, error |-> "LZ4BlockError"]

(* the LZ4 attempt was skipped: lz4.block.decompress was not called *)
LZ4Skipped ==
    [ok |-> FALSE, data |-> << >>, is_compressed |-> FALSE, error |-> "skipped"]

(* the decompressed data is no cat record: nothing raised *)
NotLZ4 ==
    [ok |-> FALSE, data |-> << >>, is_compressed |-> FALSE, error |-> "none"]

(* the test on the decompressed data d *)
unpack_lz4_result(d) ==
    IF ~d.ok THEN LZ4Failed
    ELSE IF Len(d.data) >= _NAME_START /\ unpack_u32(d.data, 0) = _CAT_MAGIC
    THEN [ok |-> TRUE, data |-> d.data, is_compressed |-> TRUE, error |-> "none"]
    ELSE NotLZ4

(* unpack_lz4_attempt with the lower end of the window two below *)
unpack_lz4_attempt_wider_window(blob) ==
    IF /\ Len(blob) > 8
       /\ SIZE_WINDOW_LOW - 2 < unpack_u32(blob, 0)
       /\ unpack_u32(blob, 0) < SIZE_WINDOW_HIGH
    THEN unpack_lz4_result(lz4_decompress(SliceFrom(blob, 4), unpack_u32(blob, 0)))
    ELSE LZ4Skipped

(* the LZ4 attempt of unpack_blob: skipped unless the blob has more than 8
   bytes and its size prefix lies in the plausible window *)
unpack_lz4_attempt(blob) ==
    IF /\ Len(blob) > 8
       /\ SIZE_WINDOW_LOW < unpack_u32(blob, 0)
       /\ unpack_u32(blob, 0) < SIZE_WINDOW_HIGH
    THEN unpack_lz4_result(lz4_decompress(SliceFrom(blob, 4), unpack_u32(blob, 0)))
    ELSE LZ4Skipped

(* the raw-format check of unpack_blob, and its ValueError (ok = FALSE) *)
unpack_raw_attempt(blob) ==
    IF Len(blob) >= _NAME_START /\ unpack_u32(blob, 0) = _CAT_MAGIC
    THEN [ok |-> TRUE, data |-> blob, is_compressed |-> FALSE, error |-> "none"]
    ELSE UnpackError

(* unpack_fall_through that lets the LZ4BlockError of the attempt escape *)
unpack_fall_through_propagating(c, blob) ==
    IF c.ok \/ c.error = "LZ4BlockError" THEN c ELSE unpack_raw_attempt(blob)

(* "return data, True" of the LZ4 attempt, or else the raw-format check: an
   error of the attempt is dropped *)
unpack_fall_through(c, blob) == IF c.ok THEN c ELSE unpack_raw_attempt(blob)

(* unpack_blob(blob) -> (raw_data, is_compressed), or ValueError (ok = FALSE) *)
unpack_blob(blob) == unpack_fall_through(unpack_lz4_attempt(blob), blob)

(* pack_blob(raw_data, is_compressed) *)
pack_blob(raw_data, is_compressed) ==
    IF is_compressed
    THEN pack_u32(Len(raw_data)) \o lz4_compress(raw_data)
    ELSE raw_data

(* is_cat_blob(blob) *)
is_cat_blob(blob) ==
    IF Len(blob) < _NAME_START THEN FALSE ELSE unpack_blob(blob).ok

(* ------------------------------------------------------------------ *)
(* str <-> UTF-16LE                                                   *)
(* ------------------------------------------------------------------ *)
IsSurrogate(u) == 55296 <= u /\ u <= 57343
IsLowSurrogate(u) == 56320 <= u /\ u <= 57343

(* the UTF-16LE bytes of one code point: one code unit below U+10000, a
   surrogate pair from there on *)
utf16le_char(c) ==
    IF c < 65536 THEN << c % 256, c \div 256 >>
    ELSE << (55296 + ((c - 65536) \div 1024)) % 256,
            (55296 + ((c - 65536) \div 1024)) \div 256,
            (56320 + ((c - 65536) % 1024)) % 256,
            (56320 + ((c - 65536) % 1024)) \div 256 >>

(* str.encode('utf-16-le'); the names encoded hold no lone surrogate, which
   validate_new_name rejects as non-printable before any encoding *)
RECURSIVE encode_utf16le(_)
encode_utf16le(name) ==
    IF name = << >> THEN << >>
    ELSE utf16le_char(Head(name)) \o encode_utf16le(Tail(name))

DecodeError == [ok |-> FALSE, str |-> << >>]

RECURSIVE decode_utf16le_from(_, _, _)

(* the code unit u at index i of b, which a second unit may have to follow *)
decode_utf16le_unit(b, i, acc, u) ==
    IF ~IsSurrogate(u) THEN decode_utf16le_from(b, i + 2, Append(acc, u))
    ELSE IF IsLowSurrogate(u) \/ i + 3 > Len(b) THEN DecodeError
    ELSE IF ~IsLowSurrogate(b[i + 2] + 256 * b[i + 3]) THEN DecodeError
    ELSE decode_utf16le_from(b, i + 4,
            Append(acc, 65536 + (u - 55296) * 1024 + (b[i + 2] + 256 * b[i + 3] - 56320)))

decode_utf16le_from(b, i, acc) ==
    IF i > Len(b) THEN [ok |-> TRUE, str |-> acc]
    ELSE IF i + 1 > Len(b) THEN DecodeError
    ELSE decode_utf16le_unit(b, i, acc, b[i] + 256 * b[i + 1])

(* bytes.decode('utf-16-le'), strict: UnicodeDecodeError (ok = FALSE) on an odd
   number of bytes and on a surrogate that is not part of a pair *)
decode_utf16le(b) == decode_utf16le_from(b, 1, << >>)

ParseError ==
    [ok |-> FALSE, name |-> << >>, name_start |-> _NAME_START, name_byte_count |-> 0]

(* the result of parse_display_name once the name bytes are decoded *)
parse_decoded(d, name_len) ==
    IF ~d.ok THEN ParseError
    ELSE [ok |-> TRUE, name |-> d.str, name_start |-> _NAME_START,
          name_byte_count |-> name_len * 2]

(* parse_name_field without the test of name_end against len(data) *)
parse_name_field_no_end_check(data, name_len) ==
    IF name_len = 0
    THEN [ok |-> TRUE, name |-> << >>, name_start |-> _NAME_START, name_byte_count |-> 0]
    ELSE IF name_len > _MAX_NAME_CHARS THEN ParseError
    ELSE parse_decoded(
            decode_utf16le(Slice(data, _NAME_START, _NAME_START + name_len * 2)),
            name_len)

(* parse_display_name on the unpacked data with its name_len field *)
parse_name_field(data, name_len) ==
    IF name_len = 0
    THEN [ok |-> TRUE, name |-> << >>, name_start |-> _NAME_START, name_byte_count |-> 0]
    ELSE IF name_len > _MAX_NAME_CHARS THEN ParseError
    ELSE IF _NAME_START + name_len * 2 > Len(data) THEN ParseError
    ELSE parse_decoded(
            decode_utf16le(Slice(data, _NAME_START, _NAME_START + name_len * 2)),
            name_len)

parse_unpacked(u) ==
    IF ~u.ok THEN ParseError
    ELSE parse_name_field(u.data, unpack_u32(u.data, _NAME_LEN_OFFSET))

(* parse_display_name(blob) -> (name, name_start, name_byte_count), or
   ValueError (ok = FALSE) *)
parse_display_name(blob) == parse_unpacked(unpack_blob(blob))

(* ------------------------------------------------------------------ *)
(* name_modifier.py                                                   *)
(* ------------------------------------------------------------------ *)
(* str.isprintable() of one character: the C0/C1 controls, DEL, the
   separators other than the ASCII space and the surrogates are not *)
IsPrintableChar(c) ==
    /\ c >= 32
    /\ ~(127 <= c /\ c <= 160)
    /\ ~IsSurrogate(c)

isprintable(name) == \A i \in 1..Len(name) : IsPrintableChar(name[i])

(* str.isspace() of one character, for str.strip() *)
IsSpaceChar(c) == (9 <= c /\ c <= 13) \/ (28 <= c /\ c <= 32) \/ c = 133 \/ c = 160

RECURSIVE lstrip(_)
lstrip(s) == IF s # << >> /\ IsSpaceChar(Head(s)) THEN lstrip(Tail(s)) ELSE s

RECURSIVE rstrip(_)
rstrip(s) ==
    IF s # << >> /\ IsSpaceChar(s[Len(s)]) THEN rstrip(SubSeq(s, 1, Len(s) - 1)) ELSE s

(* str.strip() *)
strip(s) == rstrip(lstrip(s))

ISSUE_TOO_SHORT == "Name must be at least 1 character(s)"
ISSUE_TOO_LONG == "Name must be at most 24 characters"
ISSUE_NON_PRINTABLE == "Name contains non-printable characters"
ISSUE_NON_ASCII == "Warning: non-ASCII characters may not render correctly in-game"

(* e.startswith("Warning") over the issues validate_new_name can return *)
startswith_Warning(e) == e = ISSUE_NON_ASCII

(* validate_new_name without the isprintable() check *)
validate_new_name_no_isprintable(name) ==
    (IF Len(name) < MIN_NAME_LEN THEN << ISSUE_TOO_SHORT >> ELSE << >>)
    \o (IF Len(name) > MAX_NAME_LEN THEN << ISSUE_TOO_LONG >> ELSE << >>)
    \o (IF ~(\A i \in 1..Len(name) : name[i] < 128) THEN << ISSUE_NON_ASCII >> ELSE << >>)

(* validate_new_name(name): the list of issues *)
validate_new_name(name) ==
    (IF Len(name) < MIN_NAME_LEN THEN << ISSUE_TOO_SHORT >> ELSE << >>)
    \o (IF Len(name) > MAX_NAME_LEN THEN << ISSUE_TOO_LONG >> ELSE << >>)
    \o (IF ~isprintable(name) THEN << ISSUE_NON_PRINTABLE >> ELSE << >>)
    \o (IF ~(\A i \in 1..Len(name) : name[i] < 128) THEN << ISSUE_NON_ASCII >> ELSE << >>)

(* [e for e in validate_new_name(name) if not e.startswith("Warning")] *)
name_errors(name) == SelectSeq(validate_new_name(name), LAMBDA e : ~startswith_Warning(e))

(* [w for w in validate_new_name(name) if w.startswith("Warning")] *)
name_warnings(name) == SelectSeq(validate_new_name(name), startswith_Warning)

(* the ValueError of unpack_blob, passed on by replace_display_name *)
ReplaceError == [ok |-> FALSE, blob |-> << >>, error |-> "format"]

(* raise ValueError("; ".join(errors)) *)
InvalidNameError == [ok |-> FALSE, blob |-> << >>, error |-> "invalid_name"]

(* splice_name with the padding written as zeros instead of copied *)
splice_name_zero_padding(data, old_name_end, new_name) ==
    Slice(data, 0, _NAME_LEN_OFFSET)
    \o pack_u32(Len(new_name))
    \o << 0, 0, 0, 0 >>
    \o encode_utf16le(new_name)
    \o SliceFrom(data, old_name_end)

(* the bytearray replace_display_name assembles from the decoded data, whose
   name ends at old_name_end *)
splice_name(data, old_name_end, new_name) ==
    Slice(data, 0, _NAME_LEN_OFFSET)
    \o pack_u32(Len(new_name))
    \o Slice(data, _NAME_LEN_OFFSET + 4, _NAME_START)
    \o encode_utf16le(new_name)
    \o SliceFrom(data, old_name_end)

(* replace_display_name after unpack_blob *)
replace_unpacked(u, new_name) ==
    IF ~u.ok THEN ReplaceError
    ELSE [ok |-> TRUE, error |-> "none",
          blob |-> pack_blob(
              splice_name(u.data,
                          _NAME_START + unpack_u32(u.data, _NAME_LEN_OFFSET) * 2,
                          new_name),
              u.is_compressed)]

(* replace_display_name that unpacks the blob before it validates the name *)
replace_display_name_unpack_first(blob, new_name) ==
    IF ~unpack_blob(blob).ok THEN ReplaceError
    ELSE IF name_errors(new_name) # << >> THEN InvalidNameError
    ELSE replace_unpacked(unpack_blob(blob), new_name)

(* replace_display_name(blob, new_name) -> bytes, or ValueError (ok = FALSE) *)
replace_display_name(blob, new_name) ==
    IF name_errors(new_name) # << >> THEN InvalidNameError
    ELSE replace_unpacked(unpack_blob(blob), new_name)

(* the comparison of the data after the names *)
verify_rest(o, m) ==
    IF ~o.ok THEN FALSE
    ELSE SliceFrom(o.data, _NAME_START + unpack_u32(o.data, _NAME_LEN_OFFSET) * 2)
         = SliceFrom(m.data, _NAME_START + unpack_u32(m.data, _NAME_LEN_OFFSET) * 2)

(* the comparison of the name decoded from the modified data *)
verify_name(original_blob, m, actual, expected_name) ==
    IF ~actual.ok THEN FALSE
    ELSE IF actual.str # expected_name THEN FALSE
    ELSE verify_rest(unpack_blob(original_blob), m)

verify_unpacked(original_blob, m, expected_name) ==
    IF ~m.ok THEN FALSE
    ELSE verify_name(original_blob, m,
            decode_utf16le(Slice(m.data, _NAME_START,
                _NAME_START + unpack_u32(m.data, _NAME_LEN_OFFSET) * 2)),
            expected_name)

(* verify_modified_blob that only checks that the modified blob unpacks *)
verify_modified_blob_unpack_only(original_blob, modified_blob, expected_name) ==
    unpack_blob(modified_blob).ok

(* verify_modified_blob(original_blob, modified_blob, expected_name) -> success *)
verify_modified_blob(original_blob, modified_blob, expected_name) ==
    verify_unpacked(original_blob, unpack_blob(modified_blob), expected_name)

(* ------------------------------------------------------------------ *)
(* gpak_manager.py                                                    *)
(* ------------------------------------------------------------------ *)
MAX_FILE_COUNT == 100000
TABLE_READ_SIZE == 2097152
ENTRY_MIN_BYTES == 6
MAX_PATH_LEN == 1024

(* struct.pack('<H', n) and struct.unpack_from('<H', s, off) *)
pack_u16(n) == << n % 256, n \div 256 >>
unpack_u16(s, off) == s[off + 1] + 256 * s[off + 2]

IsContinuation(x) == 128 <= x /\ x <= 191

RECURSIVE decode_utf8_from(_, _, _)

(* the sequence of lead byte b[i] and its n continuation bytes *)
decode_utf8_multi(b, i, acc, n, low, high, base) ==
    IF i + n > Len(b) THEN DecodeError
    ELSE IF ~(low <= b[i + 1] /\ b[i + 1] <= high) THEN DecodeError
    ELSE IF \E k \in 2..n : ~IsContinuation(b[i + k]) THEN DecodeError
    ELSE decode_utf8_from(b, i + n + 1,
            Append(acc,
                   IF n = 1 THEN (b[i] - base) * 64 + (b[i + 1] - 128)
                   ELSE IF n = 2
                   THEN (b[i] - base) * 4096 + (b[i + 1] - 128) * 64 + (b[i + 2] - 128)
                   ELSE (b[i] - base) * 262144 + (b[i + 1] - 128) * 4096
                        + (b[i + 2] - 128) * 64 + (b[i + 3] - 128)))

decode_utf8_from(b, i, acc) ==
    IF i > Len(b) THEN [ok |-> TRUE, str |-> acc]
    ELSE IF b[i] < 128 THEN decode_utf8_from(b, i + 1, Append(acc, b[i]))
    ELSE IF 194 <= b[i] /\ b[i] <= 223 THEN decode_utf8_multi(b, i, acc, 1, 128, 191, 192)
    ELSE IF b[i] = 224 THEN decode_utf8_multi(b, i, acc, 2, 160, 191, 224)
    ELSE IF b[i] = 237 THEN decode_utf8_multi(b, i, acc, 2, 128, 159, 224)
    ELSE IF 225 <= b[i] /\ b[i] <= 239 THEN decode_utf8_multi(b, i, acc, 2, 128, 191, 224)
    ELSE IF b[i] = 240 THEN decode_utf8_multi(b, i, acc, 3, 144, 191, 240)
    ELSE IF b[i] = 244 THEN decode_utf8_multi(b, i, acc, 3, 128, 143, 240)
    ELSE IF 241 <= b[i] /\ b[i] <= 243 THEN decode_utf8_multi(b, i, acc, 3, 128, 191, 240)
    ELSE DecodeError

(* bytes.decode('utf-8'), strict; bytes that are all ASCII decode to the
   code points of the same values *)
decode_utf8(b) ==
    IF \A i \in 1..Len(b) : b[i] < 128 THEN [ok |-> TRUE, str |-> b]
    ELSE decode_utf8_from(b, 1, << >>)

(* an exception leaving parse_file_table; reads are the (start, length) ranges
   of buf it has read so far, buf_read whether the table was read from the file *)
TableError(kind, reads, buf_len, buf_read) ==
    [ok |-> FALSE, error |-> kind, entries |-> << >>, data_start |-> 0,
     reads |-> reads, buf_len |-> buf_len, buf_read |-> buf_read]

(* assign_offsets with `offset += entry["size"]` left out *)
assign_offsets_no_advance(entries, offset) ==
    [i \in 1..Len(entries) |->
        [path |-> entries[i].path, size |-> entries[i].size, offset |-> offset]]

(* the second loop of parse_file_table: entry["offset"] *)
RECURSIVE assign_offsets(_, _)
assign_offsets(entries, offset) ==
    IF entries = << >> THEN << >>
    ELSE << [path |-> Head(entries).path, size |-> Head(entries).size, offset |-> offset] >>
         \o assign_offsets(Tail(entries), offset + Head(entries).size)

RECURSIVE table_entries(_, _, _, _, _)

(* the data_size field at pos, after the path has been decoded; unpack_from
   raises struct.error when the field is not within buf *)
table_entry_size(buf, pos, path, remaining, entries, reads) ==
    IF ~path.ok THEN TableError("UnicodeDecodeError", reads, Len(buf), TRUE)
    ELSE IF pos + 4 > Len(buf)
    THEN TableError("struct.error", Append(reads, << pos, 4 >>), Len(buf), TRUE)
    ELSE table_entries(buf, pos + 4, remaining - 1,
            Append(entries, [path |-> path.str, size |-> unpack_u32(buf, pos)]),
            Append(reads, << pos, 4 >>))

(* table_entry_path without the test of the path against the end of buf *)
table_entry_path_no_end_check(buf, pos, path_len, remaining, entries, reads) ==
    IF path_len > MAX_PATH_LEN
    THEN TableError("ValueError", reads, Len(buf), TRUE)
    ELSE table_entry_size(buf, pos + path_len,
            decode_utf8(Slice(buf, pos, pos + path_len)),
            remaining, entries, Append(reads, << pos, path_len >>))

(* the path of an entry, pos being behind its path_len field *)
table_entry_path(buf, pos, path_len, remaining, entries, reads) ==
    IF path_len > MAX_PATH_LEN \/ pos + path_len + 4 > Len(buf)
    THEN TableError("ValueError", reads, Len(buf), TRUE)
    ELSE table_entry_size(buf, pos + path_len,
            decode_utf8(Slice(buf, pos, pos + path_len)),
            remaining, entries, Append(reads, << pos, path_len >>))

(* the first loop of parse_file_table, with `remaining` entries to go *)
table_entries(buf, pos, remaining, entries, reads) ==
    IF remaining = 0
    THEN [ok |-> TRUE, error |-> "none", entries |-> assign_offsets(entries, 4 + pos),
          data_start |-> 4 + pos, reads |-> reads, buf_len |-> Len(buf), buf_read |-> TRUE]
    ELSE IF pos + ENTRY_MIN_BYTES > Len(buf)
    THEN TableError("ValueError", reads, Len(buf), TRUE)
    ELSE table_entry_path(buf, pos + 2, unpack_u16(buf, pos), remaining, entries,
                          Append(reads, << pos, 2 >>))

(* parse_file_table(gpak_path) on a file with the bytes `archive` *)
parse_file_table(archive) ==
    IF Len(archive) < 4 THEN TableError("ValueError", << >>, 0, FALSE)
    ELSE IF unpack_u32(archive, 0) > MAX_FILE_COUNT
    THEN TableError("ValueError", << >>, 0, FALSE)
    ELSE table_entries(Slice(archive, 4, 4 + TABLE_READ_SIZE), 0,
                       unpack_u32(archive, 0), << >>, << >>)

(* an exception leaving extract_files *)
ExtractError(kind) == [ok |-> FALSE, error |-> kind, result |-> << >>]

(* `fp in entry_map` answering yes for every path *)
in_entry_map_any(entries, fp) == TRUE

(* `fp in entry_map`, entry_map holding the paths of the table *)
in_entry_map(entries, fp) == \E i \in 1..Len(entries) : entries[i].path = fp

(* the entry entry_map holds for fp: of entries with one path the dict
   comprehension keeps the last *)
entry_map_get(entries, fp) ==
    entries[CHOOSE i \in 1..Len(entries) :
                /\ entries[i].path = fp
                /\ \A j \in (i + 1)..Len(entries) : entries[j].path # fp]

(* f.seek(entry["offset"]); f.read(entry["size"]): the bytes the file has in
   that range, fewer than size (or none) when the file ends before *)
seek_read(archive, entry) == Slice(archive, entry.offset, entry.offset + entry.size)

(* the loop of extract_files over the requested paths; entry_map[fp] raises
   KeyError for a path the dict does not hold *)
RECURSIVE extract_requested(_, _, _, _)
extract_requested(archive, entries, file_paths, result) ==
    IF file_paths = << >> THEN [ok |-> TRUE, error |-> "none", result |-> result]
    ELSE IF in_entry_map(entries, Head(file_paths))
    THEN IF \A i \in 1..Len(entries) : entries[i].path # Head(file_paths)
         THEN ExtractError("KeyError")
         ELSE extract_requested(archive, entries, Tail(file_paths),
                (Head(file_paths) :> seek_read(archive, entry_map_get(entries, Head(file_paths))))
                @@ result)
    ELSE extract_requested(archive, entries, Tail(file_paths), result)

(* extract_files(gpak_path, file_paths) on a file with the bytes `archive`:
   result maps each extracted path to its bytes *)
extract_files(archive, file_paths) ==
    IF ~parse_file_table(archive).ok
    THEN ExtractError(parse_file_table(archive).error)
    ELSE extract_requested(archive, parse_file_table(archive).entries, file_paths, << >>)

(* is_valid_gpak(path) on a readable file with the bytes `archive` *)
is_valid_gpak(archive) ==
    IF Len(archive) < 4 THEN FALSE
    ELSE 0 < unpack_u32(archive, 0) /\ unpack_u32(archive, 0) < MAX_FILE_COUNT

(* ------------------------------------------------------------------ *)
(* game_data_manager.py: write_loose_files                            *)
(* ------------------------------------------------------------------ *)
(* a loose file holds on disk nothing ("absent"), what it held before the
   call ("old"), part of the new data ("partial") or the new data ("new").
   The except clause of write_loose_files: every file of `written` is
   unlinked; an OSError of unlink is passed over and leaves the file *)
loose_rollback(disk, written, unlink_faults) ==
    [p \in DOMAIN disk |->
        IF (\E i \in 1..Len(written) : written[i] = p) /\ p \notin unlink_faults
        THEN "absent" ELSE disk[p]]

(* the loop of write_loose_files from item i of file_data on.  The fault
   strikes item fault_at: "mkdir" and "open" raise before the target is
   created or changed, "partial" raises inside write_bytes after the target
   was created or truncated and part of the data written.  touched holds the
   targets write_bytes has created or changed. *)
RECURSIVE loose_write_from(_, _, _, _, _, _, _, _)
loose_write_from(file_data, i, disk, written, touched, fault_at, fault_kind, unlink_faults) ==
    IF i > Len(file_data)
    THEN [raised |-> FALSE, written |-> written, disk |-> disk, touched |-> touched]
    ELSE IF i = fault_at /\ fault_kind \in {"mkdir", "open"}
    THEN [raised |-> TRUE, written |-> written,
          disk |-> loose_rollback(disk, written, unlink_faults), touched |-> touched]
    ELSE IF i = fault_at
    THEN [raised |-> TRUE, written |-> written,
          disk |-> loose_rollback([disk EXCEPT ![file_data[i]] = "partial"],
                                  written, unlink_faults),
          touched |-> touched \cup {file_data[i]}]
    ELSE loose_write_from(file_data, i + 1, [disk EXCEPT ![file_data[i]] = "new"],
                          Append(written, file_data[i]), touched \cup {file_data[i]},
                          fault_at, fault_kind, unlink_faults)

(* write_loose_files(game_dir, file_data, output_dir) on the directory
   contents `disk`: [raised, written, disk, touched] *)
write_loose_files(file_data, disk, fault_at, fault_kind, unlink_faults) ==
    loose_write_from(file_data, 1, disk, << >>, {}, fault_at, fault_kind, unlink_faults)

(* ------------------------------------------------------------------ *)
(* Bounds of the model                                                *)
(* ------------------------------------------------------------------ *)
(* the clock runs over the seconds 0..MaxTime *)
MaxTime == 1
(* events that may change a file: rename and restore requests that get past
   their confirmation dialog, and changes of the save file by another program *)
MaxOps == 2

(* ------------------------------------------------------------------ *)
(* Data of the model                                                  *)
(* ------------------------------------------------------------------ *)
(* a decoded cat record with the layout of blob_parser.py, lines 12-18 *)
MkRecord(seed, name_len, padding, name_bytes, tail) ==
    pack_u32(_CAT_MAGIC) \o seed \o pack_u32(name_len) \o padding \o name_bytes \o tail

SeedA == << 1, 2, 3, 4, 5, 6, 7, 8 >>
SeedB == << 8, 7, 6, 5, 4, 3, 2, 1 >>
PadZero == << 0, 0, 0, 0 >>
PadOdd == << 0, 0, 128, 63 >>
TailA == << 9, 8, 7 >>
TailB == << 200, 0, 19, 0, 1 >>

NameA == << 65 >>
NameB == << 66 >>
NameAB == << 65, 66 >>
NameABSpace == << 65, 66, 32 >>
NameSpace == << 32 >>
NameATabB == << 65, 9, 66 >>
NameEAcute == << 233 >>
NameAstral == << 128512 >>
NameMax == [i \in 1..MAX_NAME_LEN |-> 65]
NameTooLong == [i \in 1..(MAX_NAME_LEN + 1) |-> 65]

(* the cat blobs the row of the save file may start with *)
RawAB == MkRecord(SeedA, 2, PadZero, encode_utf16le(NameAB), TailA)
PackedA == pack_blob(MkRecord(SeedB, 1, PadOdd, encode_utf16le(NameA), TailB), TRUE)
(* a row that is no cat blob *)
Garbage == << 1, 0, 0, 0, 255, 255, 255, 255, 255, 255 >>
(* a cat blob whose name-count field overruns the data *)
RawOverrun == MkRecord(SeedA, 5, PadZero, encode_utf16le(NameAB), << >>)
(* the same cat as RawAB with another tail: the game has changed its stats *)
RawABTailB == MkRecord(SeedA, 2, PadZero, encode_utf16le(NameAB), TailB)

(* rows are addressed by (table, key); the model keeps one row of the table
   "cats" *)
Keys == {1}
Times == 0..MaxTime

NoRow == [present |-> FALSE, data |-> << >>]
Row(b) == [present |-> TRUE, data |-> b]

(* a file: whether it exists, how many times its bytes were cut short by a
   copy that failed part-way (0: a whole database), and its rows *)
NoFile == [exists |-> FALSE, cut |-> 0, rows |-> [k \in Keys |-> NoRow]]
File(cut, rows) == [exists |-> TRUE, cut |-> cut, rows |-> rows]

(* what another program may leave in a row *)
ExternalRows == {NoRow, Row(Garbage), Row(RawABTailB)}

(* what the user may type into the name entry *)
TypedNames == {NameB, NameABSpace, NameSpace, NameATabB, NameAstral}

(* ------------------------------------------------------------------ *)
(* save_manager.py                                                    *)
(* ------------------------------------------------------------------ *)
(* entry["name"] of an entry that could not be parsed ("<unrecognized
   format>", "<error: ...>"): only displayed, abbreviated here to "<?>" *)
PlaceholderName == << 60, 63, 62 >>

NoEntry ==
    [key |-> 0, blob |-> << >>, name |-> << >>, read_only |-> TRUE, parse_error |-> FALSE]

(* entry_of that leaves an entry it could not parse writable *)
entry_of_errors_writable(key, data) ==
    IF is_cat_blob(data) /\ parse_display_name(data).ok
    THEN [key |-> key, blob |-> data, name |-> parse_display_name(data).name,
          read_only |-> FALSE, parse_error |-> FALSE]
    ELSE [key |-> key, blob |-> data, name |-> PlaceholderName,
          read_only |-> FALSE, parse_error |-> TRUE]

(* the entry get_all_entries builds for one row with the "cat_blob" parser;
   no category of entity_registry.py is read-only by itself *)
entry_of(key, data) ==
    IF is_cat_blob(data)
    THEN LET r == parse_display_name(data)
         IN IF r.ok
            THEN [key |-> key, blob |-> data, name |-> r.name,
                  read_only |-> FALSE, parse_error |-> FALSE]
            ELSE [key |-> key, blob |-> data, name |-> PlaceholderName,
                  read_only |-> TRUE, parse_error |-> TRUE]
    ELSE [key |-> key, blob |-> data, name |-> PlaceholderName,
          read_only |-> TRUE, parse_error |-> TRUE]

(* get_all_entries(conn), as the map from key to entry: rows without data
   are skipped *)
get_all_entries(rows) ==
    [k \in {j \in Keys : rows[j].present /\ Len(rows[j].data) > 0}
        |-> entry_of(k, rows[k].data)]

(* the check of write_blob without the comparison of the bytes read back *)
write_verification_failed_row_only(row, new_blob) ==
    ~row.present

(* the check of write_blob after the commit *)
write_verification_failed(row, new_blob) ==
    ~row.present \/ row.data # new_blob

(* what the row-store does with the UPDATE of write_blob *)
StoreOutcomes == {"lands", "dropped", "error"}

(* write_blob(save_path, table, key, new_blob) on the file `file`:
   [raised, file, readback].  A file that is no database, or a store error
   in execute/commit, raises with nothing committed; UPDATE changes a row
   only when the key has one. *)
write_blob(file, key, new_blob, store) ==
    IF file.cut > 0 \/ store = "error"
    THEN [raised |-> TRUE, file |-> file, readback |-> NoRow, committed |-> FALSE]
    ELSE LET rows1 == IF store = "lands" /\ file.rows[key].present
                      THEN [file.rows EXCEPT ![key] = Row(new_blob)]
                      ELSE file.rows
         IN [raised |-> write_verification_failed(rows1[key], new_blob),
             file |-> [file EXCEPT !.rows = rows1],
             readback |-> rows1[key],
             committed |-> TRUE]

(* _file_sha256(path): the digest stands for the bytes it was computed from *)
_file_sha256(file) == << file.cut, file.rows >>

(* faults of a file copy *)
CopyFaults == {"none", "partial", "silent"}

(* shutil.copy2(src, dst): [raised, dst].  "partial": the copy fails after
   writing part of dst; "silent": it returns but dst holds other bytes. *)
copy2(src, fault) ==
    IF fault = "none" THEN [raised |-> FALSE, dst |-> File(src.cut, src.rows)]
    ELSE [raised |-> fault = "partial", dst |-> File(src.cut + 1, src.rows)]

(* create_backup(save_path) at clock second t, the backup path being
   decided by t alone: [raised, backups, path] *)
create_backup(file, bks, t, fault) ==
    LET c    == copy2(file, fault)
        bks1 == [bks EXCEPT ![t] = c.dst]
    IN IF c.raised THEN [raised |-> TRUE, backups |-> bks1, path |-> t]
       ELSE IF _file_sha256(file) # _file_sha256(bks1[t])
       THEN [raised |-> TRUE, backups |-> [bks1 EXCEPT ![t] = NoFile], path |-> t]
       ELSE [raised |-> FALSE, backups |-> bks1, path |-> t]

(* restore_backup without the comparison of the hashes after the copy *)
restore_backup_no_hash_check(backup, file, fault) ==
    IF ~backup.exists THEN [raised |-> TRUE, file |-> file]
    ELSE [raised |-> copy2(backup, fault).raised, file |-> copy2(backup, fault).dst]

(* restore_backup(backup_path, save_path): [raised, file] *)
restore_backup(backup, file, fault) ==
    IF ~backup.exists THEN [raised |-> TRUE, file |-> file]
    ELSE LET c == copy2(backup, fault)
         IN IF c.raised THEN [raised |-> TRUE, file |-> c.dst]
            ELSE [raised |-> _file_sha256(backup) # _file_sha256(c.dst), file |-> c.dst]

(* open_save(path): [raised, handles], handles being the connections opened
   ("connect") and closed ("close") in order.  A missing file raises before
   connect; on a file that is no database connect succeeds and the SELECT on
   sqlite_master raises, with no close on that path; otherwise the open
   connection is returned.  Every database of the model holds the table
   "cats", so the close before the ValueError of line 54 does not occur. *)
open_save(file) ==
    IF ~file.exists THEN [raised |-> TRUE, handles |-> << >>]
    ELSE IF file.cut > 0 THEN [raised |-> TRUE, handles |-> << "connect" >>]
    ELSE [raised |-> FALSE, handles |-> << "connect" >>]

(* the handles of _load_save(path): the connection open_save returns is
   closed by the finally clause around get_all_entries *)
load_save_handles(file) ==
    IF open_save(file).raised THEN open_save(file).handles
    ELSE open_save(file).handles \o << "close" >>

(* the handles of write_blob: open_save_rw raises on a missing file before
   connect; the finally clause closes the connection on every other path *)
write_blob_handles(file) ==
    IF ~file.exists THEN << >> ELSE << "connect", "close" >>

(* the handles of _file_sha256: the with statement closes the file *)
file_sha256_handles(file) ==
    IF ~file.exists THEN << >> ELSE << "open", "close" >>

(* the handles of create_backup: the two hashes after a copy that returned *)
create_backup_handles(file, bks, t, fault) ==
    IF copy2(file, fault).raised THEN << >>
    ELSE file_sha256_handles(file) \o file_sha256_handles(copy2(file, fault).dst)

(* the handles of restore_backup: the two hashes after a copy that returned *)
restore_backup_handles(backup, file, fault) ==
    IF ~backup.exists \/ copy2(backup, fault).raised THEN << >>
    ELSE file_sha256_handles(backup) \o file_sha256_handles(copy2(backup, fault).dst)

(* cleanup_old_backups(save_path) is called by the rename pipeline but is not
   defined in save_manager.py; backups persist until the user removes them *)
cleanup_old_backups(bks) == bks

(* ------------------------------------------------------------------ *)
(* State                                                              *)
(* ------------------------------------------------------------------ *)
VARIABLES
    save,               \* the save file on disk
    backups,            \* the files of the backups directory, by the second in their name
    now,                \* datetime.now(), in seconds
    current_save_path,  \* SaveRenamerTab.current_save_path
    entry_map,          \* SaveRenamerTab.entries / entry_map
    selected_entry,     \* SaveRenamerTab.selected_entry
    new_name_var,       \* SaveRenamerTab.new_name_var
    rename_btn,         \* state of SaveRenamerTab.rename_btn
    last_backup,        \* SaveRenamerTab.last_backup
    _busy,              \* SaveRenamerTab._busy
    pc,                 \* where a running _on_rename stands
    req,                \* locals of the running _on_rename: entry, new_name, bp, new_blob
    outcome,            \* how the last _on_rename ended (the dialog it showed)
    hist,               \* what the last _on_rename or _on_restore has done so far
    pre,                \* the save file as it was when the last _on_rename started
    returned,           \* per backup path, the file create_backup first returned there
    ops,                \* the events counted against MaxOps
    codec               \* inputs and results of the codec functions (CodecSpec)

vars == << save, backups, now, current_save_path, entry_map, selected_entry,
           new_name_var, rename_btn, last_backup, _busy, pc, req, outcome, hist,
           pre, returned, ops, codec >>

gui == << current_save_path, entry_map, selected_entry, new_name_var, rename_btn >>

NoPath == "None"
SavePath == "steamid/saves/save.sav"
NoBackup == -1

NoReq == [entry |-> NoEntry, new_name |-> << >>, bp |-> NoBackup, new_blob |-> << >>]

NoHist ==
    [trail |-> << >>,
     backup_called |-> FALSE, backup_returned |-> FALSE,
     verified_ok |-> FALSE, verified_blob |-> << >>,
     write_called |-> FALSE, write_key |-> 0, written_blob |-> << >>,
     write_returned |-> FALSE, store |-> "none", committed |-> FALSE,
     row_before |-> NoRow, readback |-> NoRow,
     restore_called |-> FALSE, restore_raised |-> FALSE, restore_path |-> NoBackup,
     restore_backup |-> NoFile, restore_target |-> NoFile,
     handles |-> << >>]

(* parse_file_table not called yet *)
NoTable == TableError("none", << >>, 0, FALSE)
(* extract_files not called yet *)
NoExtract == ExtractError("none")

(* the relative paths of the loose files of the model *)
LoosePaths == 1..3

(* write_loose_files not called: its inputs and its result *)
NoLoose ==
    [file_data |-> << >>, before |-> [p \in LoosePaths |-> "absent"],
     fault_at |-> 0, fault_kind |-> "mkdir", unlink_faults |-> {},
     result |-> [raised |-> FALSE, written |-> << >>,
                 disk |-> [p \in LoosePaths |-> "absent"], touched |-> {}]]

CodecIdle ==
    [op |-> "idle", blob |-> << >>, name |-> << >>, flag |-> FALSE,
     replaced |-> ReplaceError, unpacked |-> UnpackError, parsed |-> ParseError,
     archive |-> << >>, table |-> NoTable, paths |-> << >>, extracted |-> NoExtract,
     valid |-> FALSE, loose |-> NoLoose]

InitialSaves == {File(0, [k \in Keys |-> Row(b)]) : b \in {RawAB, PackedA}}

(* SaveRenamerTab.__init__, before any save is loaded *)
Init ==
    /\ save \in InitialSaves
    /\ backups = [t \in Times |-> NoFile]
    /\ now = 0
    /\ current_save_path = NoPath
    /\ entry_map = << >>
    /\ selected_entry = NoEntry
    /\ new_name_var = << >>
    /\ rename_btn = "disabled"
    /\ last_backup = NoBackup
    /\ _busy = FALSE
    /\ pc = "idle"
    /\ req = NoReq
    /\ outcome = "none"
    /\ hist = NoHist
    /\ pre = NoFile
    /\ returned = [t \in Times |-> NoFile]
    /\ ops = 0
    /\ codec = CodecIdle

(* ------------------------------------------------------------------ *)
(* gui_tab_renamer.py: loading and selection                          *)
(* ------------------------------------------------------------------ *)
(* _load_save(path) reading `file`: open_save raises on a file that is no
   database and the tab stays as it is; otherwise the entries are replaced
   and _refresh_tree clears the selection and the name entry *)
_load_save(file) ==
    IF open_save(file).raised
    THEN UNCHANGED gui
    ELSE /\ current_save_path' = SavePath
         /\ entry_map' = get_all_entries(file.rows)
         /\ selected_entry' = NoEntry
         /\ new_name_var' = << >>
         /\ rename_btn' = "disabled"

(* the record of the last rename request (req, outcome, hist, pre) describes
   the request that is running or has just ended: the next event clears it *)
Forget ==
    /\ req' = NoReq
    /\ outcome' = "none"
    /\ hist' = NoHist
    /\ pre' = NoFile

(* _browse_save / _on_save_selected / _discover_saves *)
LoadSave ==
    /\ pc = "idle"
    /\ _load_save(save)
    /\ req' = NoReq
    /\ outcome' = "none"
    /\ hist' = [NoHist EXCEPT !.handles = load_save_handles(save)]
    /\ pre' = NoFile
    /\ UNCHANGED << save, backups, now, last_backup, _busy, pc, returned, ops, codec >>

(* the state _on_name_changed gives the rename button for the text n *)
rename_btn_state(n, sel) ==
    IF sel # NoEntry /\ MIN_NAME_LEN <= Len(n) /\ Len(n) <= MAX_NAME_LEN /\ n # sel.name
    THEN "normal" ELSE "disabled"

Header == 0
NoSelection == -1

(* _on_entry_selected with the tree selection sel: nothing, a category
   header, or the row of an entry *)
OnEntrySelected ==
    /\ pc = "idle"
    /\ \E sel \in DOMAIN entry_map \cup {Header, NoSelection} :
         IF sel = NoSelection
         THEN /\ selected_entry' = NoEntry
              /\ UNCHANGED << new_name_var, rename_btn >>
         ELSE IF sel = Header \/ entry_map[sel].read_only
         THEN /\ selected_entry' = NoEntry
              /\ new_name_var' = << >>
              /\ rename_btn' = "disabled"
         ELSE /\ selected_entry' = entry_map[sel]
              /\ new_name_var' = << >>
              /\ rename_btn' = rename_btn_state(<< >>, entry_map[sel])
    /\ Forget
    /\ UNCHANGED << save, backups, now, current_save_path, entry_map, last_backup,
                    _busy, pc, returned, ops, codec >>

(* the user edits the name entry; the trace calls _on_name_changed *)
OnNameChanged ==
    /\ pc = "idle"
    /\ \E n \in TypedNames :
         /\ n # new_name_var
         /\ new_name_var' = n
         /\ rename_btn' = rename_btn_state(n, selected_entry)
    /\ Forget
    /\ UNCHANGED << save, backups, now, current_save_path, entry_map, selected_entry,
                    last_backup, _busy, pc, returned, ops, codec >>

(* ------------------------------------------------------------------ *)
(* gui_tab_renamer.py: _on_rename                                     *)
(* ------------------------------------------------------------------ *)
(* EndRequest without the finally clause that clears _busy *)
EndRequest_busy_kept(result) ==
    /\ pc' = "idle"
    /\ _busy' = _busy
    /\ outcome' = result

(* the except/finally exits of _on_rename *)
EndRequest(result) ==
    /\ pc' = "idle"
    /\ _busy' = FALSE
    /\ outcome' = result

(* the except clause with a roll-back to the backup of the request *)
rename_failed_rollback(file, bks, bp) ==
    IF bp # NoBackup THEN restore_backup(bks[bp], file, "none").file ELSE file

(* the save file after the except clause of _on_rename, which only shows the
   "Rename failed" dialog *)
rename_failed(file, bks, bp) == file

(* where _on_rename goes after create_backup *)
stage_after_backup(raised) == IF raised THEN "idle" ELSE "replace"

(* stage_after_verify without the "if not ok: return" *)
stage_after_verify_ignored(ok) == "write"

(* where _on_rename goes after verify_modified_blob: "if not ok: return" *)
stage_after_verify(ok) == IF ok THEN "write" ELSE "idle"

(* The Rename button invokes _on_rename (a disabled button invokes nothing):
   the guards, the validation and the dialogs before the try block.  The
   answers to the dialogs and is_game_running() are inputs. *)
OnRename ==
    /\ pc = "idle"
    /\ rename_btn = "normal"
    /\ \E continue_anyway \in BOOLEAN, game_running \in BOOLEAN, confirmed \in BOOLEAN :
         LET new_name == strip(new_name_var)
             rejected(result) ==
                 /\ outcome' = result
                 /\ req' = NoReq
                 /\ UNCHANGED << rename_btn, _busy, pc, ops >>
         IN /\ hist' = NoHist
            /\ pre' = save
            /\ IF _busy \/ selected_entry = NoEntry \/ current_save_path = NoPath
               THEN rejected("ignored")
               ELSE IF name_errors(new_name) # << >> THEN rejected("invalid")
               ELSE IF name_warnings(new_name) # << >> /\ ~continue_anyway
               THEN rejected("declined")
               ELSE IF game_running THEN rejected("game_running")
               ELSE IF ~confirmed THEN rejected("declined")
               ELSE /\ ops < MaxOps
                    /\ ops' = ops + 1
                    /\ _busy' = TRUE
                    /\ rename_btn' = "disabled"
                    /\ req' = [entry |-> selected_entry, new_name |-> new_name,
                               bp |-> NoBackup, new_blob |-> << >>]
                    /\ pc' = "backup"
                    /\ outcome' = "running"
    /\ UNCHANGED << save, backups, now, current_save_path, entry_map, selected_entry,
                    new_name_var, last_backup, returned, codec >>

(* bp = create_backup(self.current_save_path); self.last_backup = bp *)
CreateBackupStep ==
    /\ pc = "backup"
    /\ \E fault \in CopyFaults :
         LET r == create_backup(save, backups, now, fault)
         IN /\ backups' = r.backups
            /\ hist' = [hist EXCEPT !.trail = Append(@, "backup"),
                                    !.handles = @ \o create_backup_handles(save, backups, now, fault),
                                    !.backup_called = TRUE,
                                    !.backup_returned = ~r.raised]
            /\ IF stage_after_backup(r.raised) = "idle"
               THEN /\ EndRequest("failed")
                    /\ save' = rename_failed(save, r.backups, req.bp)
                    /\ UNCHANGED << last_backup, req, returned >>
               ELSE /\ pc' = stage_after_backup(r.raised)
                    /\ UNCHANGED save
                    /\ last_backup' = r.path
                    /\ req' = [req EXCEPT !.bp = r.path]
                    /\ returned' = IF returned[r.path].exists THEN returned
                                   ELSE [returned EXCEPT ![r.path] = r.backups[r.path]]
                    /\ UNCHANGED << _busy, outcome >>
    /\ UNCHANGED << now, gui, pre, ops, codec >>

(* new_blob = replace_display_name(entry["blob"], new_name) *)
ReplaceStep ==
    /\ pc = "replace"
    /\ LET r == replace_display_name(req.entry.blob, req.new_name)
       IN /\ hist' = [hist EXCEPT !.trail = Append(@, "replace_name")]
          /\ IF r.ok
             THEN /\ req' = [req EXCEPT !.new_blob = r.blob]
                  /\ pc' = "verify"
                  /\ UNCHANGED << save, _busy, outcome >>
             ELSE /\ EndRequest("failed")
                  /\ save' = rename_failed(save, backups, req.bp)
                  /\ UNCHANGED req
    /\ UNCHANGED << backups, now, gui, last_backup, pre, returned, ops, codec >>

(* ok, msg = verify_modified_blob(entry["blob"], new_blob, new_name) *)
VerifyStep ==
    /\ pc = "verify"
    /\ LET ok == verify_modified_blob(req.entry.blob, req.new_blob, req.new_name)
       IN /\ hist' = [hist EXCEPT !.trail = Append(@, "verify"),
                                  !.verified_ok = ok,
                                  !.verified_blob = req.new_blob]
          /\ IF stage_after_verify(ok) = "idle"
             THEN EndRequest("verification_failed")
             ELSE /\ pc' = stage_after_verify(ok)
                  /\ UNCHANGED << _busy, outcome >>
    /\ UNCHANGED << save, backups, now, gui, last_backup, req, pre, returned,
                    ops, codec >>

(* write_blob(self.current_save_path, entry["source"], entry["key"], new_blob) *)
WriteBlobStep ==
    /\ pc = "write"
    /\ \E store \in StoreOutcomes :
         LET w == write_blob(save, req.entry.key, req.new_blob, store)
         IN /\ save' = IF w.raised THEN rename_failed(w.file, backups, req.bp) ELSE w.file
            /\ hist' = [hist EXCEPT !.trail = Append(@, "write") \o
                                       (IF w.committed THEN << "read_back" >> ELSE << >>),
                                    !.handles = @ \o write_blob_handles(save),
                                    !.write_called = TRUE,
                                    !.write_key = req.entry.key,
                                    !.written_blob = req.new_blob,
                                    !.write_returned = ~w.raised,
                                    !.store = store,
                                    !.committed = w.committed,
                                    !.row_before = save.rows[req.entry.key],
                                    !.readback = w.readback]
            /\ IF w.raised
               THEN EndRequest("failed")
               ELSE /\ pc' = "post"
                    /\ UNCHANGED << _busy, outcome >>
    /\ UNCHANGED << backups, now, gui, last_backup, req, pre, returned, ops, codec >>

(* after write_blob: _load_save, cleanup_old_backups, the status line and the
   success dialog; an exception raised by one of them is caught by the
   "except Exception" of _on_rename like any other *)
PostWriteStep ==
    /\ pc = "post"
    /\ _load_save(save)
    /\ backups' = cleanup_old_backups(backups)
    /\ \E raised \in BOOLEAN :
         /\ EndRequest(IF raised THEN "failed" ELSE "success")
         /\ save' = IF raised THEN rename_failed(save, backups, req.bp) ELSE save
    /\ hist' = [hist EXCEPT !.handles = @ \o load_save_handles(save)]
    /\ UNCHANGED << now, last_backup, req, pre, returned, ops, codec >>

(* ------------------------------------------------------------------ *)
(* gui_tab_renamer.py: _on_restore                                    *)
(* ------------------------------------------------------------------ *)
(* The Restore button: the user picks a backup (one list_backups has found,
   or a path in the file dialog) and confirms; without a loaded save, with
   the game running, without a backup picked or without confirmation nothing
   happens.  The file picked may be gone by the time restore_backup runs. *)
OnRestore ==
    /\ pc = "idle"
    /\ current_save_path # NoPath
    /\ ops < MaxOps
    /\ \E t \in Times, fault \in CopyFaults :
         /\ backups[t].exists \/ fault = "none"
         /\ save' = restore_backup(backups[t], save, fault).file
         /\ IF restore_backup(backups[t], save, fault).raised
            THEN UNCHANGED gui
            ELSE _load_save(restore_backup(backups[t], save, fault).file)
         /\ hist' = [NoHist EXCEPT
                        !.restore_called = TRUE,
                        !.restore_raised = restore_backup(backups[t], save, fault).raised,
                        !.restore_path = t,
                        !.restore_backup = backups[t],
                        !.restore_target = save,
                        !.handles =
                            restore_backup_handles(backups[t], save, fault)
                            \o (IF restore_backup(backups[t], save, fault).raised
                                THEN << >>
                                ELSE load_save_handles(
                                        restore_backup(backups[t], save, fault).file))]
    /\ ops' = ops + 1
    /\ req' = NoReq
    /\ outcome' = "none"
    /\ pre' = NoFile
    /\ UNCHANGED << backups, now, last_backup, _busy, pc, returned, codec >>

(* ------------------------------------------------------------------ *)
(* Environment                                                        *)
(* ------------------------------------------------------------------ *)
(* the clock reaches the next second *)
Tick ==
    /\ pc = "idle"
    /\ now < MaxTime
    /\ now' = now + 1
    /\ Forget
    /\ UNCHANGED << save, backups, gui, last_backup, _busy, pc, returned, ops, codec >>

(* another program (the game) rewrites or deletes a row of the save file
   while no rename request is running *)
ExternalChange ==
    /\ pc = "idle"
    /\ ops < MaxOps
    /\ save.cut = 0
    /\ \E k \in Keys, r \in ExternalRows :
         /\ r # save.rows[k]
         /\ save' = [save EXCEPT !.rows[k] = r]
    /\ ops' = ops + 1
    /\ Forget
    /\ UNCHANGED << backups, now, gui, last_backup, _busy, pc, returned, codec >>

Next ==
    \/ LoadSave
    \/ OnEntrySelected
    \/ OnNameChanged
    \/ OnRename
    \/ CreateBackupStep
    \/ ReplaceStep
    \/ VerifyStep
    \/ WriteBlobStep
    \/ PostWriteStep
    \/ OnRestore
    \/ Tick
    \/ ExternalChange

Spec == Init /\ [][Next]_vars

(* ------------------------------------------------------------------ *)
(* The codec functions on their own                                   *)
(* ------------------------------------------------------------------ *)
(* decoded records: with and without a name, with and without a tail (the
   shortest is the bare 20-byte header), with zero and non-zero padding *)
CodecRecords ==
    { MkRecord(SeedA, Len(n), p, encode_utf16le(n), t) :
        n \in {<< >>, NameA, NameAB}, p \in {PadZero, PadOdd}, t \in {<< >>, TailA} }

(* an LZ4 block with a match (14 literals, 6 bytes copied from 1 back, 7
   literals) that decodes to RawAB, behind its size prefix *)
PackedWithMatch ==
    pack_u32(27) \o << 226, 19, 0, 0, 0, 1, 2, 3, 4, 5, 6, 7, 8, 2, 0, 1, 0,
                       112, 65, 0, 66, 0, 9, 8, 7 >>

(* a plausible size prefix before bytes that are no LZ4 block: the literal
   length runs past the end of the input *)
BadBlock == pack_u32(27) \o << 255, 255, 255, 255, 255 >>

(* the block of PackedWithMatch behind a size prefix it does not fit in *)
OverflowBlock == pack_u32(21) \o SliceFrom(PackedWithMatch, 4)

(* a record that holds all the bytes of a name one character above the
   safety ceiling *)
RawCeiling ==
    MkRecord(SeedA, _MAX_NAME_CHARS + 1, PadZero,
             [i \in 1..(2 * (_MAX_NAME_CHARS + 1)) |-> IF i % 2 = 1 THEN 65 ELSE 0], TailA)

(* a record whose one name code unit is a high surrogate without its pair *)
RawLoneSurrogate == MkRecord(SeedA, 1, PadZero, << 61, 216 >>, TailA)

(* a record as the game stores a name outside the Basic Multilingual Plane:
   the count field holds its two code units *)
RawAstral == MkRecord(SeedA, 2, PadZero, encode_utf16le(NameAstral), TailA)

(* the magic followed by too few bytes for a record *)
ShortMagic == pack_u32(_CAT_MAGIC) \o << 1, 2, 3, 4, 5, 6 >>

CodecBlobs ==
    CodecRecords
    \cup { pack_blob(r, TRUE) : r \in CodecRecords }
    \cup { RawOverrun, pack_blob(RawOverrun, TRUE), Garbage, PackedWithMatch }
    \cup { BadBlock, OverflowBlock, ShortMagic }
    \cup { RawCeiling, RawLoneSurrogate, RawAstral, pack_blob(RawAstral, TRUE) }

CodecNames ==
    { << >>, NameA, NameB, NameAB, NameABSpace, NameATabB, NameEAcute, NameAstral,
      NameMax, NameTooLong }

(* the inputs: a blob, a name and a compression flag *)
CodecInit ==
    /\ save \in {File(0, [k \in Keys |-> Row(RawAB)])}
    /\ backups = [t \in Times |-> NoFile]
    /\ now = 0
    /\ current_save_path = NoPath
    /\ entry_map = << >>
    /\ selected_entry = NoEntry
    /\ new_name_var = << >>
    /\ rename_btn = "disabled"
    /\ last_backup = NoBackup
    /\ _busy = FALSE
    /\ pc = "idle"
    /\ req = NoReq
    /\ outcome = "none"
    /\ hist = NoHist
    /\ pre = NoFile
    /\ returned = [t \in Times |-> NoFile]
    /\ ops = 0
    /\ codec \in [op : {"input"}, blob : CodecBlobs, name : CodecNames, flag : BOOLEAN,
                  replaced : {ReplaceError}, unpacked : {UnpackError},
                  parsed : {ParseError}, archive : {<< >>}, table : {NoTable},
                  paths : {<< >>}, extracted : {NoExtract}, valid : {FALSE},
                  loose : {NoLoose}]

pipeline == << save, backups, now, current_save_path, entry_map, selected_entry,
               new_name_var, rename_btn, last_backup, _busy, pc, req, outcome, hist,
               pre, returned, ops >>

(* replace_display_name(blob, name) *)
ApplyReplace ==
    /\ codec.op = "input"
    /\ codec' = [codec EXCEPT !.op = "replace",
                              !.replaced = replace_display_name(codec.blob, codec.name)]
    /\ UNCHANGED pipeline

(* unpack_blob(pack_blob(blob, flag)) *)
ApplyRoundTrip ==
    /\ codec.op = "input"
    /\ codec' = [codec EXCEPT !.op = "roundtrip",
                              !.unpacked = unpack_blob(pack_blob(codec.blob, codec.flag))]
    /\ UNCHANGED pipeline

(* parse_display_name(blob) *)
ApplyParse ==
    /\ codec.op = "input"
    /\ codec' = [codec EXCEPT !.op = "parse",
                              !.parsed = parse_display_name(codec.blob)]
    /\ UNCHANGED pipeline

CodecNext ==
    \/ ApplyReplace
    \/ ApplyRoundTrip
    \/ ApplyParse

CodecSpec == CodecInit /\ [][CodecNext]_vars

(* ------------------------------------------------------------------ *)
(* The archive reader on its own                                      *)
(* ------------------------------------------------------------------ *)
(* [uint16 path_len][path bytes (UTF-8)][uint32 data_size] *)
GpakEntry(path, size) == pack_u16(Len(path)) \o path \o pack_u32(size)

(* the table of "a" (3 bytes of data) and "bc" (2 bytes), and their data *)
TableAB == GpakEntry(<< 97 >>, 3) \o GpakEntry(<< 98, 99 >>, 2)
DataAB == << 1, 2, 3, 4, 5 >>

(* what follows the count header: the table and data above, cut at any length *)
ArchiveBodies == { Slice(TableAB \o DataAB, 0, n) : n \in 0..Len(TableAB \o DataAB) }

(* an entry whose path is one byte longer than allowed, all its bytes present *)
LongPathEntry == GpakEntry([i \in 1..(MAX_PATH_LEN + 1) |-> 97], 0)
(* an entry whose path has the longest length allowed *)
MaxPathEntry == GpakEntry([i \in 1..MAX_PATH_LEN |-> 97], 0)
(* entries whose paths are UTF-8 of U+00E9, and no UTF-8 at all *)
AccentEntry == GpakEntry(<< 195, 169 >>, 1)
(* a table with an empty file, a file declared a million bytes long, and one more *)
TableZeroBig ==
    GpakEntry(<< 97 >>, 0) \o GpakEntry(<< 98 >>, 1000000) \o GpakEntry(<< 99 >>, 1)
BadUtf8Entry == GpakEntry(<< 255 >>, 1)

(* a table that names the path "a" twice, and its data *)
TableDup == GpakEntry(<< 97 >>, 1) \o GpakEntry(<< 97 >>, 2)
DataDup == << 9, 8, 7 >>

Archives ==
    { pack_u32(c) \o b : c \in 0..3, b \in ArchiveBodies }
    \cup { << >>, << 2, 0, 0 >> }
    \cup { pack_u32(c) \o b : c \in {MAX_FILE_COUNT, MAX_FILE_COUNT + 1},
                               b \in {<< >>, TableAB \o DataAB} }
    \cup { pack_u32(1) \o e : e \in {LongPathEntry, MaxPathEntry, AccentEntry \o << 7 >>,
                                     BadUtf8Entry \o << 7 >>} }
    \cup { pack_u32(3) \o TableZeroBig, pack_u32(2) \o TableDup \o DataDup }

(* the lists of paths a caller may request: "a", "bc", U+00E9 and "zz",
   which no table of the model holds *)
RequestLists ==
    { << >>, << << 97 >> >>, << << 97 >>, << 122, 122 >> >>,
      << << 98, 99 >>, << 233 >>, << 98, 99 >> >> }

(* the input: the bytes of an archive file, and the paths to extract *)
GpakInit ==
    /\ save \in {File(0, [k \in Keys |-> Row(RawAB)])}
    /\ backups = [t \in Times |-> NoFile]
    /\ now = 0
    /\ current_save_path = NoPath
    /\ entry_map = << >>
    /\ selected_entry = NoEntry
    /\ new_name_var = << >>
    /\ rename_btn = "disabled"
    /\ last_backup = NoBackup
    /\ _busy = FALSE
    /\ pc = "idle"
    /\ req = NoReq
    /\ outcome = "none"
    /\ hist = NoHist
    /\ pre = NoFile
    /\ returned = [t \in Times |-> NoFile]
    /\ ops = 0
    /\ codec \in [op : {"archive"}, blob : {<< >>}, name : {<< >>}, flag : {FALSE},
                  replaced : {ReplaceError}, unpacked : {UnpackError},
                  parsed : {ParseError}, archive : Archives, table : {NoTable},
                  paths : RequestLists, extracted : {NoExtract}, valid : {FALSE},
                  loose : {NoLoose}]

(* parse_file_table(gpak_path) *)
ApplyParseFileTable ==
    /\ codec.op = "archive"
    /\ codec' = [codec EXCEPT !.op = "parse_file_table",
                              !.table = parse_file_table(codec.archive)]
    /\ UNCHANGED pipeline

(* extract_files(gpak_path, file_paths) *)
ApplyExtractFiles ==
    /\ codec.op = "archive"
    /\ codec' = [codec EXCEPT !.op = "extract_files",
                              !.table = parse_file_table(codec.archive),
                              !.extracted = extract_files(codec.archive, codec.paths)]
    /\ UNCHANGED pipeline

(* is_valid_gpak(path) *)
ApplyIsValidGpak ==
    /\ codec.op = "archive"
    /\ codec' = [codec EXCEPT !.op = "is_valid_gpak",
                              !.table = parse_file_table(codec.archive),
                              !.valid = is_valid_gpak(codec.archive)]
    /\ UNCHANGED pipeline

GpakNext ==
    \/ ApplyParseFileTable
    \/ ApplyExtractFiles
    \/ ApplyIsValidGpak

GpakSpec == GpakInit /\ [][GpakNext]_vars

(* ------------------------------------------------------------------ *)
(* The loose-file writer on its own                                   *)
(* ------------------------------------------------------------------ *)
(* file_data, by the order of its items: the relative paths to write *)
LooseFileDatas == { << >>, << 1 >>, << 1, 2 >>, << 2, 1 >>, << 1, 2, 3 >>, << 3, 1, 2 >> }

(* the inputs of write_loose_files: the files to write, what the directory
   holds, the item at which a fault strikes (0: none) and its kind, and the
   files whose unlink fails *)
LooseInputs ==
    { [file_data |-> fd, before |-> d, fault_at |-> n, fault_kind |-> k,
       unlink_faults |-> u, result |-> NoLoose.result] :
        fd \in LooseFileDatas, d \in [LoosePaths -> {"absent", "old"}],
        n \in 0..3, k \in {"mkdir", "open", "partial"}, u \in {{}, {1}} }

LooseInit ==
    /\ save \in {File(0, [k \in Keys |-> Row(RawAB)])}
    /\ backups = [t \in Times |-> NoFile]
    /\ now = 0
    /\ current_save_path = NoPath
    /\ entry_map = << >>
    /\ selected_entry = NoEntry
    /\ new_name_var = << >>
    /\ rename_btn = "disabled"
    /\ last_backup = NoBackup
    /\ _busy = FALSE
    /\ pc = "idle"
    /\ req = NoReq
    /\ outcome = "none"
    /\ hist = NoHist
    /\ pre = NoFile
    /\ returned = [t \in Times |-> NoFile]
    /\ ops = 0
    /\ codec \in { [CodecIdle EXCEPT !.op = "loose_input", !.loose = l] :
                     l \in { x \in LooseInputs :
                                /\ x.fault_at <= Len(x.file_data)
                                /\ x.fault_at = 0 => x.fault_kind = "mkdir" } }

(* write_loose_files(game_dir, file_data) *)
ApplyWriteLooseFiles ==
    /\ codec.op = "loose_input"
    /\ codec' = [codec EXCEPT
                    !.op = "write_loose_files",
                    !.loose.result =
                        write_loose_files(codec.loose.file_data, codec.loose.before,
                                          codec.loose.fault_at, codec.loose.fault_kind,
                                          codec.loose.unlink_faults)]
    /\ UNCHANGED pipeline

LooseNext ==
    \/ ApplyWriteLooseFiles

LooseSpec == LooseInit /\ [][LooseNext]_vars

(* ------------------------------------------------------------------ *)
(* Properties of the codec                                            *)
(* ------------------------------------------------------------------ *)
(* the fields of a decoded record *)
MagicOf(data) == Slice(data, 0, 4)
SeedOf(data) == Slice(data, 4, 12)
CountOf(data) == unpack_u32(data, _NAME_LEN_OFFSET)
PaddingOf(data) == Slice(data, 16, _NAME_START)
TailOf(data) == SliceFrom(data, _NAME_START + 2 * CountOf(data))

(* a name that validate_new_name passes without errors *)
ValidName(n) ==
    /\ MIN_NAME_LEN <= Len(n) /\ Len(n) <= MAX_NAME_LEN
    /\ \A i \in 1..Len(n) : IsPrintableChar(n[i])

(* a valid decoded record: the magic, at least the header, the name within it *)
IsValidRecord(b) ==
    /\ Len(b) >= _NAME_START
    /\ unpack_u32(b, 0) = _CAT_MAGIC
    /\ _NAME_START + 2 * CountOf(b) <= Len(b)

ReplaceApplied ==
    /\ codec.op = "replace"
    /\ unpack_blob(codec.blob).ok
    /\ ValidName(codec.name)

(* C3: for every blob unpack_blob accepts and every valid new name, the tail
   of replace_display_name's decoded output (after its own name-count field)
   equals the tail of the decoded input. *)
C3_TailPreserved ==
    ReplaceApplied =>
        /\ codec.replaced.ok
        /\ unpack_blob(codec.replaced.blob).ok
        /\ TailOf(unpack_blob(codec.replaced.blob).data)
           = TailOf(unpack_blob(codec.blob).data)

(* C4: for every accepted blob and every valid new name, the magic, the seed
   and the padding of the decoded output of replace_display_name are those of
   the decoded input. *)
C4_HeaderPreserved ==
    ReplaceApplied =>
        /\ codec.replaced.ok
        /\ unpack_blob(codec.replaced.blob).ok
        /\ MagicOf(unpack_blob(codec.replaced.blob).data)
           = MagicOf(unpack_blob(codec.blob).data)
        /\ SeedOf(unpack_blob(codec.replaced.blob).data)
           = SeedOf(unpack_blob(codec.blob).data)
        /\ PaddingOf(unpack_blob(codec.replaced.blob).data)
           = PaddingOf(unpack_blob(codec.blob).data)

(* a compressed blob with non-zero padding has been given a name of another
   length *)
C4_Witness ==
    /\ ReplaceApplied
    /\ codec.replaced.ok
    /\ unpack_blob(codec.blob).is_compressed
    /\ PaddingOf(unpack_blob(codec.blob).data) = PadOdd
    /\ CountOf(unpack_blob(codec.replaced.blob).data)
       # CountOf(unpack_blob(codec.blob).data)

(* C5: for every valid decoded record and both flags,
   unpack_blob(pack_blob(record, flag)) succeeds and returns the record and
   the flag. *)
C5_RoundTrip ==
    (codec.op = "roundtrip" /\ IsValidRecord(codec.blob)) =>
        /\ codec.unpacked.ok
        /\ codec.unpacked.data = codec.blob
        /\ codec.unpacked.is_compressed = codec.flag

(* ------------------------------------------------------------------ *)
(* Properties of the rename pipeline                                  *)
(* ------------------------------------------------------------------ *)
RequestFailed == pc = "idle" /\ outcome \in {"failed", "verification_failed"}

(* C1: when a rename request ends in a failure exit, at whatever stage, the
   rows of the save file are those the file had when the request started. *)
C1_FailureLeavesRows ==
    RequestFailed => save.rows = pre.rows

Stages == << "backup", "replace_name", "verify", "write", "read_back" >>

(* C2: the stages of a rename request occur in the order backup,
   replace_name, verify, write, read-back, and write_blob is executed only
   after create_backup has returned and verify_modified_blob has accepted the
   very blob that is written. *)
C2_StageOrder ==
    /\ Len(hist.trail) <= Len(Stages)
    /\ hist.trail = SubSeq(Stages, 1, Len(hist.trail))
    /\ hist.write_called =>
          /\ hist.backup_returned
          /\ hist.verified_ok
          /\ hist.verified_blob = hist.written_blob

(* a request has gone through all its stages and write_blob has returned *)
C2_Witness ==
    /\ hist.trail = Stages
    /\ hist.write_returned
    /\ hist.backup_returned

(* C6: every blob handed to write_blob decodes to the requested new name and
   has the tail of the original blob, and a request whose verification fails
   ends without a write. *)
C6_WrittenBlobChecked ==
    /\ hist.write_called =>
          /\ parse_display_name(hist.written_blob).ok
          /\ parse_display_name(hist.written_blob).name = req.new_name
          /\ TailOf(unpack_blob(hist.written_blob).data)
             = TailOf(unpack_blob(req.entry.blob).data)
    /\ outcome = "verification_failed" =>
          /\ ~hist.write_called
          /\ save = pre

(* a compressed blob with a new name has been handed to write_blob *)
C6_Witness ==
    /\ hist.write_called
    /\ unpack_blob(hist.written_blob).is_compressed
    /\ req.new_name # req.entry.name

(* C7 as stated: write_blob raises, and the request reports failure, whenever
   the store dropped the write or the key has no row. *)
C7_DroppedWriteRaises ==
    (hist.write_called /\ (hist.store = "dropped" \/ ~hist.row_before.present)) =>
        /\ ~hist.write_returned
        /\ outcome = "failed"

(* C7, amended: write_blob returns only when the row read back holds exactly
   the blob it was asked to write; when the row read back holds other bytes
   or the key has no row it raises and the request reports failure, and a
   request reports success only with the blob in the row. *)
C7_WriteVerified ==
    /\ hist.write_returned => hist.readback = Row(hist.written_blob)
    /\ (hist.write_called /\ hist.readback # Row(hist.written_blob)) =>
          /\ ~hist.write_returned
          /\ outcome = "failed"
    /\ outcome = "success" =>
          /\ hist.write_returned
          /\ save.rows[hist.write_key] = Row(hist.written_blob)

(* the store dropped a write over other bytes, and write_blob raised *)
C7_Witness ==
    /\ hist.write_called
    /\ hist.store = "dropped"
    /\ hist.row_before.present
    /\ hist.row_before.data # hist.written_blob
    /\ ~hist.write_returned
    /\ outcome = "failed"

(* C8: after create_backup the backup path holds a copy equal to the source
   when it returned, and no file at all when it failed. *)
C8_NoPartialBackup ==
    hist.backup_called =>
        IF hist.backup_returned
        THEN backups[now] = File(pre.cut, pre.rows)
        ELSE ~backups[now].exists

(* C9: a backup that create_backup has returned keeps its bytes. *)
C9_BackupImmutable ==
    \A t \in Times : returned[t].exists => backups[t] = returned[t]

(* C10: a name that fails validation ends the request before any file is
   touched: only requests with a valid name get as far as create_backup or
   write_blob, and a request rejected as invalid has called neither and left
   the save file as it was. *)
C10_InvalidNameTouchesNothing ==
    /\ (pc # "idle" \/ hist.backup_called \/ hist.write_called) => ValidName(req.new_name)
    /\ outcome = "invalid" =>
          /\ ~ValidName(strip(new_name_var))
          /\ pc = "idle"
          /\ ~hist.backup_called
          /\ ~hist.write_called
          /\ save = pre

(* a name with a non-printable character has been rejected *)
C10_Witness ==
    /\ outcome = "invalid"
    /\ \E i \in 1..Len(new_name_var) : ~IsPrintableChar(new_name_var[i])
    /\ \A t \in Times : ~backups[t].exists

(* ------------------------------------------------------------------ *)
(* Properties of the codec: validation and format detection           *)
(* ------------------------------------------------------------------ *)
(* C11: replace_display_name raises the name error, whatever the blob and
   before it is decoded, when the new name is shorter than 1, longer than 24
   or holds a non-printable character; a printable name of allowed length
   with non-ASCII characters gets the warning only and is not rejected. *)
C11_NameCheckedFirst ==
    codec.op = "replace" =>
        /\ ~ValidName(codec.name) => codec.replaced = InvalidNameError
        /\ (ValidName(codec.name) /\ (\E i \in 1..Len(codec.name) : codec.name[i] >= 128)) =>
              /\ name_warnings(codec.name) # << >>
              /\ codec.replaced.error # "invalid_name"
              /\ unpack_blob(codec.blob).ok => codec.replaced.ok

(* an invalid name has been refused for a blob that is no cat blob *)
C11_Witness ==
    /\ codec.op = "replace"
    /\ ~unpack_blob(codec.blob).ok
    /\ Len(codec.name) > MAX_NAME_LEN
    /\ codec.replaced = InvalidNameError

(* the blob ApplyRoundTrip hands to unpack_blob *)
ProbedBlob == pack_blob(codec.blob, codec.flag)

(* block decompression of the bytes after the size prefix succeeds and its
   output begins with the magic *)
DecompressesToMagic(b) ==
    /\ Len(b) >= 4
    /\ lz4_decompress(SliceFrom(b, 4), unpack_u32(b, 0)).ok
    /\ Len(lz4_decompress(SliceFrom(b, 4), unpack_u32(b, 0)).data) >= 4
    /\ unpack_u32(lz4_decompress(SliceFrom(b, 4), unpack_u32(b, 0)).data, 0) = _CAT_MAGIC

(* the input itself has the raw layout *)
HasRawLayout(b) == Len(b) >= _NAME_START /\ unpack_u32(b, 0) = _CAT_MAGIC

(* C12: unpack_blob returns (decompressed bytes, True) exactly when the block
   after the size prefix decompresses to bytes that begin with the magic;
   otherwise (input, False) exactly when the input is at least 20 bytes and
   begins with the magic; otherwise it raises the format error. *)
C12_Classification ==
    codec.op = "roundtrip" =>
        IF DecompressesToMagic(ProbedBlob)
        THEN /\ codec.unpacked.ok
             /\ codec.unpacked.is_compressed
             /\ codec.unpacked.data
                = lz4_decompress(SliceFrom(ProbedBlob, 4), unpack_u32(ProbedBlob, 0)).data
        ELSE IF HasRawLayout(ProbedBlob)
        THEN /\ codec.unpacked.ok
             /\ ~codec.unpacked.is_compressed
             /\ codec.unpacked.data = ProbedBlob
        ELSE codec.unpacked = UnpackError

(* the LZ4 attempt of unpack_blob on b ends in a decompression failure *)
DecompressionFails(b) ==
    /\ Len(b) > 8
    /\ SIZE_WINDOW_LOW < unpack_u32(b, 0)
    /\ unpack_u32(b, 0) < SIZE_WINDOW_HIGH
    /\ ~lz4_decompress(SliceFrom(b, 4), unpack_u32(b, 0)).ok

(* C13: unpack_blob never passes a decompression failure on to its caller:
   after one it returns what the raw-layout check gives, and the only error it
   ever returns is the format error. *)
C13_DecompressionFailureSwallowed ==
    codec.op = "roundtrip" =>
        /\ ~codec.unpacked.ok => codec.unpacked = UnpackError
        /\ DecompressionFails(ProbedBlob) =>
              IF HasRawLayout(ProbedBlob)
              THEN /\ codec.unpacked.ok
                   /\ ~codec.unpacked.is_compressed
                   /\ codec.unpacked.data = ProbedBlob
              ELSE codec.unpacked = UnpackError

(* a malformed block behind a plausible size prefix has been probed *)
C13_Witness ==
    /\ codec.op = "roundtrip"
    /\ DecompressionFails(ProbedBlob)
    /\ codec.unpacked = UnpackError

(* ------------------------------------------------------------------ *)
(* Properties of the codec: the name field                            *)
(* ------------------------------------------------------------------ *)
(* the bytes of the name field of the decoded record d *)
NameFieldOf(d) == Slice(d, _NAME_START, _NAME_START + 2 * CountOf(d))

(* what C14 demands of the result r for the decoded record d *)
ParsedAsClaimed(d, r) ==
    IF CountOf(d) = 0 THEN r.ok /\ r.name = << >>
    ELSE IF CountOf(d) > _MAX_NAME_CHARS \/ _NAME_START + 2 * CountOf(d) > Len(d)
    THEN ~r.ok
    ELSE /\ r.ok = decode_utf16le(NameFieldOf(d)).ok
         /\ r.ok => /\ encode_utf16le(r.name) = NameFieldOf(d)
                    /\ Len(NameFieldOf(d)) = 2 * CountOf(d)
                    /\ r.name_byte_count = 2 * CountOf(d)

(* C14: for a decodable blob parse_display_name returns the empty name for a
   count of 0, raises for a count above 500 or a name that would end past the
   data, and otherwise returns the name whose UTF-16LE bytes are exactly the
   count*2 bytes at offset 20 (it raises when these bytes are no UTF-16LE);
   a shortened name is never returned. *)
C14_ParseDisplayName ==
    (codec.op = "parse" /\ unpack_blob(codec.blob).ok) =>
        ParsedAsClaimed(unpack_blob(codec.blob).data, codec.parsed)

(* a record holding all the bytes of a 501-character name has been refused *)
C14_Witness ==
    /\ codec.op = "parse"
    /\ unpack_blob(codec.blob).ok
    /\ CountOf(unpack_blob(codec.blob).data) > _MAX_NAME_CHARS
    /\ _NAME_START + 2 * CountOf(unpack_blob(codec.blob).data)
       <= Len(unpack_blob(codec.blob).data)
    /\ ~codec.parsed.ok

(* the decoded records a and b agree in every field *)
SameFields(a, b) ==
    /\ MagicOf(a) = MagicOf(b)
    /\ SeedOf(a) = SeedOf(b)
    /\ CountOf(a) = CountOf(b)
    /\ PaddingOf(a) = PaddingOf(b)
    /\ NameFieldOf(a) = NameFieldOf(b)
    /\ TailOf(a) = TailOf(b)

(* C15: for an accepted blob whose current name is a valid name, replacing
   the name by the current name gives a blob whose decoded record has the
   fields of the decoded original. *)
C15_Idempotent ==
    (/\ ReplaceApplied
     /\ parse_display_name(codec.blob).ok
     /\ codec.name = parse_display_name(codec.blob).name) =>
        /\ codec.replaced.ok
        /\ unpack_blob(codec.replaced.blob).ok
        /\ SameFields(unpack_blob(codec.replaced.blob).data, unpack_blob(codec.blob).data)

(* C16: in the decoded output of replace_display_name for a valid name, the
   count field times two is the number of name bytes spliced in, and the name
   field holds exactly these bytes. *)
C16_CountMatchesNameBytes ==
    ReplaceApplied =>
        /\ codec.replaced.ok
        /\ unpack_blob(codec.replaced.blob).ok
        /\ 2 * CountOf(unpack_blob(codec.replaced.blob).data)
           = Len(encode_utf16le(codec.name))
        /\ NameFieldOf(unpack_blob(codec.replaced.blob).data) = encode_utf16le(codec.name)

(* the count field of the decoded record d is outside the safety bounds *)
CountOutOfBounds(d) ==
    CountOf(d) > _MAX_NAME_CHARS \/ _NAME_START + 2 * CountOf(d) > Len(d)

(* C17: replace_display_name raises, and returns no bytes, for a blob whose
   old count field exceeds the ceiling or runs past the decoded data. *)
C17_OldCountChecked ==
    (ReplaceApplied /\ CountOutOfBounds(unpack_blob(codec.blob).data)) =>
        /\ ~codec.replaced.ok
        /\ codec.replaced.blob = << >>

(* ------------------------------------------------------------------ *)
(* Properties of restore                                              *)
(* ------------------------------------------------------------------ *)
(* the rows the request's own write_blob has left: the row it read back in
   place of the row of its key, or the rows as they were *)
RowsAfterRequest ==
    IF hist.write_called /\ hist.committed /\ hist.readback.present
    THEN [pre.rows EXCEPT ![hist.write_key] = hist.readback]
    ELSE pre.rows

(* C18: a rename request never restores a backup: while it runs and on every
   exit, successful or failed, the save file is the file the request started
   with, changed by nothing but the request's own write; a restore is only
   ever done by the restore action, with no rename request running. *)
C18_NoRestoreInRename ==
    /\ outcome # "none" =>
          /\ ~hist.restore_called
          /\ save.exists
          /\ save.cut = pre.cut
          /\ save.rows = RowsAfterRequest
    /\ hist.restore_called => pc = "idle" /\ outcome = "none"

(* a request has failed after its write, with its backup of the original
   rows at hand, and the save file keeps the written blob *)
C18_Witness ==
    /\ pc = "idle"
    /\ outcome = "failed"
    /\ hist.write_returned
    /\ req.bp # NoBackup
    /\ backups[now] = File(pre.cut, pre.rows)
    /\ save.rows # pre.rows

(* the bytes of a file *)
BytesOf(file) == << file.cut, file.rows >>

(* C19: when restore_backup returns normally the target has the bytes of the
   backup and the backup is unchanged; when the backup does not exist it
   raises and the target is as before; when the bytes of the target differ
   from the backup's after the copy it raises. *)
C19_RestoreBackup ==
    hist.restore_called =>
        /\ ~hist.restore_raised =>
              /\ hist.restore_backup.exists
              /\ save.exists
              /\ BytesOf(save) = BytesOf(hist.restore_backup)
              /\ backups[hist.restore_path] = hist.restore_backup
        /\ ~hist.restore_backup.exists =>
              /\ hist.restore_raised
              /\ save = hist.restore_target
        /\ BytesOf(save) # BytesOf(hist.restore_backup) => hist.restore_raised

(* a backup has been restored over a save file with other rows *)
C19_Witness ==
    /\ hist.restore_called
    /\ ~hist.restore_raised
    /\ hist.restore_target.rows # hist.restore_backup.rows
    /\ save.rows = hist.restore_backup.rows

(* ------------------------------------------------------------------ *)
(* Properties of the archive reader                                   *)
(* ------------------------------------------------------------------ *)
(* n entries starting at pos lie within buf, each path at most 1024 bytes *)
RECURSIVE EntriesFit(_, _, _)
EntriesFit(buf, pos, n) ==
    IF n = 0 THEN TRUE
    ELSE /\ pos + 2 <= Len(buf)
         /\ unpack_u16(buf, pos) <= MAX_PATH_LEN
         /\ pos + 2 + unpack_u16(buf, pos) + 4 <= Len(buf)
         /\ EntriesFit(buf, pos + 2 + unpack_u16(buf, pos) + 4, n - 1)

(* C20: every range of the table buffer parse_file_table reads (path length,
   path, size) lies within the bytes that were read; a table with a path
   length above 1024 or an entry running past the buffer is refused with the
   format error; a count above 100000 is refused with no table byte read. *)
C20_ReadsWithinBuffer ==
    codec.op = "parse_file_table" =>
        /\ \A i \in 1..Len(codec.table.reads) :
              /\ codec.table.reads[i][1] >= 0
              /\ codec.table.reads[i][1] + codec.table.reads[i][2] <= codec.table.buf_len
        /\ codec.table.error # "struct.error"
        /\ (Len(codec.archive) >= 4 /\ unpack_u32(codec.archive, 0) > MAX_FILE_COUNT) =>
              /\ codec.table.error = "ValueError"
              /\ ~codec.table.buf_read
              /\ codec.table.reads = << >>
        /\ (/\ Len(codec.archive) >= 4
            /\ unpack_u32(codec.archive, 0) <= MAX_FILE_COUNT
            /\ ~EntriesFit(SliceFrom(codec.archive, 4), 0, unpack_u32(codec.archive, 0))) =>
              codec.table.error = "ValueError"

(* a table that declares two entries and is cut inside the second path *)
C20_Witness ==
    /\ codec.op = "parse_file_table"
    /\ Len(codec.archive) >= 4
    /\ unpack_u32(codec.archive, 0) = 2
    /\ Len(codec.table.reads) = 3
    /\ codec.table.error = "ValueError"

(* the number of bytes the n entries starting at pos take in buf *)
RECURSIVE TableBytes(_, _, _)
TableBytes(buf, pos, n) ==
    IF n = 0 THEN pos
    ELSE TableBytes(buf, pos + 2 + unpack_u16(buf, pos) + 4, n - 1)

(* C21: for an archive parse_file_table accepts, the first entry's offset is
   4 plus the byte length of the file table, every later entry's offset is the
   previous entry's offset plus the previous entry's declared size, and the
   offsets never decrease in table order. *)
C21_Offsets ==
    (codec.op = "parse_file_table" /\ codec.table.ok) =>
        /\ Len(codec.table.entries) = unpack_u32(codec.archive, 0)
        /\ codec.table.data_start
              = 4 + TableBytes(SliceFrom(codec.archive, 4), 0, unpack_u32(codec.archive, 0))
        /\ codec.table.entries # << >> =>
              codec.table.entries[1].offset = codec.table.data_start
        /\ \A i \in 2..Len(codec.table.entries) :
              codec.table.entries[i].offset
                = codec.table.entries[i - 1].offset + codec.table.entries[i - 1].size
        /\ \A i \in 1..Len(codec.table.entries) : \A j \in i..Len(codec.table.entries) :
              codec.table.entries[i].offset <= codec.table.entries[j].offset

(* an accepted table of three entries, the second of which has data *)
C21_Witness ==
    /\ codec.op = "parse_file_table"
    /\ codec.table.ok
    /\ Len(codec.table.entries) = 3
    /\ codec.table.entries[2].size > 0
    /\ codec.table.entries[3].offset > codec.table.entries[2].offset

(* the paths of the list file_paths *)
PathsOf(file_paths) == { file_paths[i] : i \in 1..Len(file_paths) }

(* C22: for every requested path the table holds, extract_files returns the
   declared number of bytes of that entry, the archive bytes from its offset
   to its offset plus its declared size; fewer bytes come only with an error. *)
C22_ExactBytes ==
    (codec.op = "extract_files" /\ codec.extracted.ok) =>
        \A fp \in PathsOf(codec.paths) :
            in_entry_map(codec.table.entries, fp) =>
                /\ fp \in DOMAIN codec.extracted.result
                /\ Len(codec.extracted.result[fp])
                     = entry_map_get(codec.table.entries, fp).size
                /\ codec.extracted.result[fp]
                     = [i \in 1..entry_map_get(codec.table.entries, fp).size |->
                           codec.archive[entry_map_get(codec.table.entries, fp).offset + i]]

(* C23: the keys of the result of extract_files are the requested paths that
   the file table holds; a requested path the table does not hold is left
   out without an error, and no other path appears. *)
C23_ResultKeys ==
    codec.op = "extract_files" =>
        /\ codec.extracted.ok = codec.table.ok
        /\ codec.extracted.ok =>
              DOMAIN codec.extracted.result
                = { fp \in PathsOf(codec.paths) :
                      \E i \in 1..Len(codec.table.entries) :
                          codec.table.entries[i].path = fp }

(* "a" and "zz" requested from the archive that holds "a" and "bc" *)
C23_Witness ==
    /\ codec.op = "extract_files"
    /\ codec.extracted.ok
    /\ Len(codec.table.entries) = 2
    /\ codec.paths = << << 97 >>, << 122, 122 >> >>
    /\ DOMAIN codec.extracted.result = { << 97 >> }

(* C29: is_valid_gpak and parse_file_table agree on the count header: a
   readable file reaches the read of the table in parse_file_table (its header
   is neither too short nor carries an unreasonable count) exactly when
   is_valid_gpak reports it valid. *)
C29_HeaderAgreement ==
    codec.op = "is_valid_gpak" => (codec.table.buf_read <=> codec.valid)

(* ------------------------------------------------------------------ *)
(* Properties of the blob codec: the magic as a size prefix            *)
(* ------------------------------------------------------------------ *)
(* C28: an input that begins with the 4-byte magic 0x13 is never classified
   as compressed by unpack_blob: decompression is not attempted, an input of
   at least 20 bytes comes back as the raw form with its bytes unchanged, and
   a shorter one is refused. *)
C28_MagicNeverCompressed ==
    (/\ codec.op = "roundtrip"
     /\ ~codec.flag
     /\ Len(codec.blob) >= 4
     /\ unpack_u32(codec.blob, 0) = _CAT_MAGIC) =>
        /\ unpack_lz4_attempt(codec.blob).error = "skipped"
        /\ ~codec.unpacked.is_compressed
        /\ Len(codec.blob) >= _NAME_START =>
              codec.unpacked = [ok |-> TRUE, data |-> codec.blob,
                                is_compressed |-> FALSE, error |-> "none"]
        /\ Len(codec.blob) < _NAME_START => ~codec.unpacked.ok

(* unpack_blob was applied to a raw record longer than 8 bytes *)
C28_Witness ==
    /\ codec.op = "roundtrip"
    /\ ~codec.flag
    /\ Len(codec.blob) > _NAME_START
    /\ unpack_u32(codec.blob, 0) = _CAT_MAGIC
    /\ codec.unpacked.ok
    /\ codec.unpacked.data = codec.blob

(* ------------------------------------------------------------------ *)
(* Properties of the rename tab                                       *)
(* ------------------------------------------------------------------ *)
(* C30: _busy is true exactly while a rename request is between its backup
   step and its completion; once _on_rename has ended, whether in success,
   in a failed verification or in an exception, _busy is false again, so the
   test of _busy never turns down a later request. *)
C30_BusyWhileRunning ==
    /\ _busy <=> pc \in {"backup", "replace", "verify", "write", "post"}
    /\ pc = "idle" => ~_busy
    /\ outcome \in {"success", "failed", "verification_failed"} => ~_busy
    /\ outcome = "running" => _busy

(* a request that had called write_blob ended in an exception *)
C30_Witness ==
    /\ pc = "idle"
    /\ outcome = "failed"
    /\ hist.write_called
    /\ ~_busy

(* C27: an entry that could not be parsed, or is read-only, is never selected
   and never written: selected_entry is either none or a writable entry of the
   current entry_map whose blob parses, and write_blob is only ever called for
   such an entry. *)
C27_ReadOnlyNeverWritten ==
    /\ selected_entry # NoEntry =>
          /\ ~selected_entry.read_only
          /\ ~selected_entry.parse_error
          /\ parse_display_name(selected_entry.blob).ok
          /\ selected_entry.key \in DOMAIN entry_map
          /\ entry_map[selected_entry.key] = selected_entry
    /\ hist.write_called =>
          /\ req.entry # NoEntry
          /\ hist.write_key = req.entry.key
          /\ ~req.entry.read_only
          /\ ~req.entry.parse_error
          /\ parse_display_name(req.entry.blob).ok
    /\ pc \in {"backup", "replace", "verify", "write"} =>
          /\ req.entry.key \in DOMAIN entry_map
          /\ ~entry_map[req.entry.key].read_only

(* the loaded save holds an entry that could not be parsed; a name has been
   typed, and nothing is selected and the Rename button is disabled *)
C27_Witness ==
    /\ 1 \in DOMAIN entry_map
    /\ entry_map[1].parse_error
    /\ entry_map[1].read_only
    /\ selected_entry = NoEntry
    /\ new_name_var = NameB
    /\ rename_btn = "disabled"

(* C26: after a rename request that reports success, the row differs from the
   value it held in the save file immediately before the write only in its
   name count and name: magic, seed, padding and tail of the decoded row are
   those the file held, also when another program changed the row after the
   tab had loaded it. *)
C26_CurrentRowKept ==
    (outcome = "success" /\ hist.write_called) =>
        /\ hist.row_before.present
        /\ unpack_blob(hist.row_before.data).ok
        /\ unpack_blob(hist.written_blob).ok
        /\ MagicOf(unpack_blob(hist.written_blob).data)
             = MagicOf(unpack_blob(hist.row_before.data).data)
        /\ SeedOf(unpack_blob(hist.written_blob).data)
             = SeedOf(unpack_blob(hist.row_before.data).data)
        /\ PaddingOf(unpack_blob(hist.written_blob).data)
             = PaddingOf(unpack_blob(hist.row_before.data).data)
        /\ TailOf(unpack_blob(hist.written_blob).data)
             = TailOf(unpack_blob(hist.row_before.data).data)

(* ------------------------------------------------------------------ *)
(* Properties of the handles                                          *)
(* ------------------------------------------------------------------ *)
(* the handles of the sequence of events that were opened and not closed *)
LeftOpen(events) ==
    Cardinality({ i \in 1..Len(events) : events[i] \in {"connect", "open"} })
    - Cardinality({ i \in 1..Len(events) : events[i] = "close" })

(* C24: every connection or file handle opened by open_save, write_blob and
   the hash function during a load, a rename request or a restore is closed
   when the operation that opened it has ended, on its error paths too: no
   handle is left open. *)
C24_NoHandleLeftOpen ==
    LeftOpen(hist.handles) = 0

(* ------------------------------------------------------------------ *)
(* Properties of the loose-file writer                                *)
(* ------------------------------------------------------------------ *)
(* C25: when write_loose_files fails part-way, the error reaches the caller
   and none of the files the call wrote is on disk afterwards, the file whose
   write was in progress included. *)
C25_NothingLeftAfterFailure ==
    (codec.op = "write_loose_files" /\ codec.loose.fault_at > 0) =>
        /\ codec.loose.result.raised
        /\ \A p \in codec.loose.result.touched :
              codec.loose.result.disk[p] = "absent"

====
